---- MODULE Spec2Model ----
(***************************************************************************)
(* Model of auto_blog_poster.py: one invocation of main() is a run; runs   *)
(* share the CMS (the posts stored per slug), the wall clock and the       *)
(* market-data provider.  Every external call answers nondeterministically *)
(* within its interface (raise, error status, well-formed answer).         *)
(***************************************************************************)
EXTENDS Integers, Sequences, FiniteSets, TLC

VARIABLES cfg, clock, market, posts, run

vars == <<cfg, clock, market, posts, run>>

(* ------------------------------ bounds --------------------------------- *)
\* minutes that pass during the modelled window
MaxTicks == 1
\* configured tag names (WP_TAGS after split/strip)
MaxTags == 1
\* items in one news-provider answer
MaxNews == 2
\* characters in one generative-text answer
MaxGenLen == 1
\* minutes per calendar day, scaled down
MinutesPerDay == 2

Runs == 1..2

\* Python's None, for an absent price / id / path
None == 0 - 1

(* --------------------------- program tables ---------------------------- *)
\* market_dashboard: the five macro indicators, in dict order
dash_tickers == <<"VIX", "DXY", "WTI", "GOLD", "TNX">>
\* m7_prices: the equity basket, in list order
m7_names == <<"AAPL", "MSFT", "NVDA", "AMZN", "META", "GOOGL", "TSLA">>
\* build_context_text: the order the news is asked in
news_tickers == <<"AAPL", "NVDA", "TSLA", "MSFT", "META", "GOOGL", "AMZN">>

AllTickers == dash_tickers \o m7_names

IndexOf(t) == CHOOSE i \in 1..Len(AllTickers) : AllTickers[i] = t

\* the tickers the provider can be without data for: one indicator, one equity
DownCandidates == {"VIX", "TSLA"}

\* the provider's states: a price level and at most one ticker without data
MarketStates == [epoch : 0..1, down : {{}} \cup {{t} : t \in DownCandidates}]

\* the minutes the clock can show, which are also the slugs
Minutes == (MinutesPerDay - 1)..(MinutesPerDay - 1 + MaxTicks)

\* strftime('%Y年%m月%d日') of a minute
DayOf(m) == m \div MinutesPerDay

(* ---------------------------- text values ------------------------------ *)
\* a line of text: its leading spaces and its content
Line(i, a, b, c) == [ind |-> i, txt |-> <<a, b, c>>]
BlankLine(i) == Line(i, "blank", "", 0)
IsBlank(l) == l.txt[1] = "blank"

NonBlank(ls) == {i \in 1..Len(ls) : ~IsBlank(ls[i])}

Least(S) == CHOOSE m \in S : (m - 1) \notin S /\ \A x \in S : m <= x
Greatest(S) == CHOOSE m \in S : (m + 1) \notin S /\ \A x \in S : m >= x

\* the common margin of the lines that are not blank (None when all are)
MinInd(ls) ==
    IF NonBlank(ls) = {} THEN None ELSE Least({ls[i].ind : i \in NonBlank(ls)})

\* textwrap.dedent: whitespace-only lines become empty, the common margin of
\* the other lines is removed
dedent(ls) ==
    LET m == MinInd(ls)
    IN  [i \in 1..Len(ls) |->
            IF IsBlank(ls[i]) THEN BlankLine(0)
            ELSE [ls[i] EXCEPT !.ind = @ - (IF m = None THEN 0 ELSE m)]]

DropLeadingBlank(ls) ==
    IF NonBlank(ls) = {} THEN <<>> ELSE SubSeq(ls, Least(NonBlank(ls)), Len(ls))

DropTrailingBlank(ls) ==
    IF NonBlank(ls) = {} THEN <<>> ELSE SubSeq(ls, 1, Greatest(NonBlank(ls)))

\* str.strip() of a multi-line text: blank lines at both ends go, and so do
\* the leading spaces of the first remaining line
strip_lines(ls) ==
    LET core == DropTrailingBlank(DropLeadingBlank(ls))
    IN  IF core = <<>> THEN <<>>
        ELSE <<[core[1] EXCEPT !.ind = 0]>> \o Tail(core)

\* a generated answer is a string over a space (0) and a letter (1)
RECURSIVE GenStrings(_)
GenStrings(n) ==
    IF n = 0 THEN {<<>>}
    ELSE LET S == GenStrings(n - 1)
         IN  S \cup {Append(s, c) : s \in {x \in S : Len(x) = n - 1}, c \in 0..1}

NonSpace(s) == {i \in 1..Len(s) : s[i] # 0}

LStrip(s) == IF NonSpace(s) = {} THEN <<>> ELSE SubSeq(s, Least(NonSpace(s)), Len(s))

RStrip(s) == IF NonSpace(s) = {} THEN <<>> ELSE SubSeq(s, 1, Greatest(NonSpace(s)))

\* str.strip() of a one-line string
strip(s) == RStrip(LStrip(s))

(* ---------------------------- data collection -------------------------- *)
\* price_of: the latest close, or None when the provider has no data or raises
price_of(t, mk) ==
    IF t \in mk.down THEN None ELSE 10 * IndexOf(t) + mk.epoch

market_dashboard(mk) == [i \in 1..Len(dash_tickers) |-> price_of(dash_tickers[i], mk)]

m7_prices(mk) == [i \in 1..Len(m7_names) |-> price_of(m7_names[i], mk)]

\* no request is made (no API key, no client)
NoCall == [kind |-> "nocall", n |-> 0]
NoChat == [kind |-> "nocall", content |-> <<>>]

\* the answers http_json can get from the news provider
NewsAnswers ==
    {[kind |-> "fail", n |-> 0], [kind |-> "errdict", n |-> 0], [kind |-> "dict", n |-> 0]}
    \cup {[kind |-> "list", n |-> k] : k \in 0..MaxNews}

\* finnhub_company_news: the numbers of the items kept (at most the first two)
finnhub_company_news(haskey, ans) ==
    IF ~haskey THEN <<>>
    ELSE IF ans.kind # "list" \/ ans.n = 0 THEN <<>>
    ELSE [k \in 1..(IF ans.n < 2 THEN ans.n ELSE 2) |-> k]

(* ---------------------------- article text ----------------------------- *)
\* the news lines of build_context_text: for each ticker with news, a "- t:"
\* line and one line per item
NewsLines(ns) ==
    IF ns = <<>> THEN <<>>
    ELSE LET w == 1 + Len(ns)
         IN  [j \in 1..(w * Len(news_tickers)) |->
                 LET t == news_tickers[((j - 1) \div w) + 1]
                     k == (j - 1) % w
                 IN  IF k = 0 THEN Line(0, "newsof", t, 0)
                     ELSE Line(2, "item", t, ns[k])]

\* build_context_text: the lines of the context block
build_context_text(mk, haskey, ans) ==
    LET dash == market_dashboard(mk)
        m7 == m7_prices(mk)
    IN  <<Line(0, "title", "indicators", 0)>>
        \o [i \in 1..Len(dash) |-> Line(0, "kv", dash_tickers[i], dash[i])]
        \o <<BlankLine(0), Line(0, "title", "m7", 0)>>
        \o [i \in 1..Len(m7) |-> Line(0, "kv", m7_names[i], m7[i])]
        \o <<BlankLine(0), Line(0, "title", "news", 0)>>
        \o NewsLines(finnhub_company_news(haskey, ans))

\* the f-string of long_article_fallback before dedent and strip
FallbackRaw(ctx, today) ==
    <<BlankLine(0),
      Line(4, "head", "1", today), Line(4, "para", "1", 0), BlankLine(0),
      Line(4, "head", "2", 0)>>
    \o <<[ctx[1] EXCEPT !.ind = @ + 4]>> \o Tail(ctx)
    \o <<BlankLine(0),
         Line(4, "head", "3", 0), Line(4, "para", "3", 0), BlankLine(0),
         Line(4, "head", "4", 0), Line(4, "para", "4", 0), BlankLine(0),
         Line(4, "head", "5", 0), Line(4, "para", "5", 0), BlankLine(0),
         Line(4, "head", "6", 0), Line(4, "bullet", "6", 1),
         Line(4, "bullet", "6", 2), Line(4, "bullet", "6", 3), BlankLine(0),
         Line(4, "head", "7", 0), Line(4, "para", "7", 0),
         BlankLine(4)>>

long_article_fallback(ctx, today) == strip_lines(dedent(FallbackRaw(ctx, today)))

\* the outcomes of the one generative-text call
ChatAnswers ==
    {[kind |-> "raise", content |-> <<>>], [kind |-> "none", content |-> <<>>]}
    \cup {[kind |-> "text", content |-> s] : s \in GenStrings(MaxGenLen)}

\* long_article_by_openai: the stripped text, or None
long_article_by_openai(hasclient, ans) ==
    IF ~hasclient THEN [some |-> FALSE, text |-> <<>>]
    ELSE IF ans.kind # "text" THEN [some |-> FALSE, text |-> <<>>]
    ELSE [some |-> TRUE, text |-> strip(ans.content)]

\* build_article with `text if text is not None else ...`
build_article_notnone(text, ctx, today) ==
    IF text.some
    THEN [src |-> "openai", text |-> text.text, lines |-> <<>>]
    ELSE [src |-> "fallback", text |-> <<>>, lines |-> long_article_fallback(ctx, today)]

\* build_article: `text if text else long_article_fallback(ctx)`
build_article(text, ctx, today) ==
    IF text.some /\ text.text # <<>>
    THEN [src |-> "openai", text |-> text.text, lines |-> <<>>]
    ELSE [src |-> "fallback", text |-> <<>>, lines |-> long_article_fallback(ctx, today)]

NoArticle == [src |-> "none", text |-> <<>>, lines |-> <<>>]
NoText == [some |-> FALSE, text |-> <<>>]

(* ------------------------------- CMS ----------------------------------- *)
\* the answers to GET posts?slug=...: a 200 list answer holds the stored posts
DupAnswers == {"raise", "non200", "notlist", "list"}

\* post_exists that never finds a post
post_exists_never(ans, stored) == FALSE

\* post_exists that takes a failed request for a found post
post_exists_failclosed(ans, stored) == ans # "list" \/ stored > 0

\* post_exists with the test on the list's length inverted
post_exists_inverted(ans, stored) == ans = "list" /\ stored = 0

\* post_exists with `len(r.json()) > 1`
post_exists_offbyone(ans, stored) == ans = "list" /\ stored > 1

\* post_exists
post_exists(ans, stored) == ans = "list" /\ stored > 0

\* the values the environment can give WP_BASE_URL: characters "/" and "h"
BaseUrls == {<<>>, <<"/">>, <<"h", "/">>}

RECURSIVE rstrip_slash(_)
rstrip_slash(s) ==
    IF s # <<>> /\ s[Len(s)] = "/" THEN rstrip_slash(SubSeq(s, 1, Len(s) - 1)) ELSE s

\* WP_BASE_URL = os.getenv("WP_BASE_URL", "").rstrip("/")
WP_BASE_URL(c) == rstrip_slash(c.base)

\* the configuration test without the application password
ConfigOk_nopass(c) == WP_BASE_URL(c) # <<>> /\ c.user

\* main's configuration test `all([WP_BASE_URL, WP_USERNAME, WP_APP_PASSWORD])`
ConfigOk(c) == WP_BASE_URL(c) # <<>> /\ c.user /\ c.pass

IsWrite(call) == call \in {"POST tags", "POST media", "POST posts"}

Count(s, x) == Cardinality({i \in 1..Len(s) : s[i] = x})
Writes(s) == {i \in 1..Len(s) : IsWrite(s[i])}

(* ------------------------------ the runs ------------------------------- *)
NoImage == [kind |-> "none", dash |-> <<>>, m7 |-> <<>>]

IdleRun ==
    [pc |-> "start", steps |-> <<"start">>, abort |-> "none", after |-> FALSE,
     slug |-> None, title |-> None,
     checked |-> FALSE, dupOk |-> FALSE, storeAtCheck |-> 0,
     ctx |-> <<>>, today |-> None, text |-> NoText, article |-> NoArticle,
     tag_ids |-> <<>>, img |-> NoImage, renderRaised |-> FALSE,
     fm_id |-> None, posted |-> FALSE, url |-> FALSE, trace |-> <<>>]

Over(r) == run[r].pc \in {"end", "crashed"}

Goto(rec, step) == [rec EXCEPT !.pc = step, !.steps = Append(@, step)]

Repeat(x, n) == [i \in 1..n |-> x]

\* the requests of market_dashboard() followed by m7_prices(), one entry each
PriceCalls == <<"prices", "prices">>

Configs ==
    [base : BaseUrls, user : BOOLEAN, pass : BOOLEAN,
     client : BOOLEAN, finnhub : BOOLEAN, ntags : {0, MaxTags}]

\* main, lines 328-339: the configuration test, then title and slug from now
Start(r) ==
    /\ run[r].pc = "start"
    /\ run' = [run EXCEPT ![r] =
            IF ~ConfigOk(cfg)
            THEN Goto([@ EXCEPT !.abort = "config",
                                !.after = \A q \in Runs \ {r} : Over(q)], "end")
            ELSE Goto([@ EXCEPT !.slug = clock, !.title = DayOf(clock),
                                !.after = \A q \in Runs \ {r} : Over(q)],
                      "check_duplicate")]
    /\ UNCHANGED <<cfg, clock, market, posts>>

\* main, lines 340-342: post_exists(slug), and the return when it is true
CheckDuplicate(r) ==
    /\ run[r].pc = "check_duplicate"
    /\ \E ans \in DupAnswers :
          LET stored == posts[run[r].slug]
              rec == [run[r] EXCEPT !.checked = TRUE, !.dupOk = (ans = "list"),
                                    !.storeAtCheck = stored,
                                    !.trace = Append(@, "GET posts")]
          IN  run' = [run EXCEPT ![r] =
                  IF post_exists(ans, stored)
                  THEN Goto([rec EXCEPT !.abort = "duplicate"], "end")
                  ELSE Goto(rec, "compose_article")]
    /\ UNCHANGED <<cfg, clock, market, posts>>

\* main, line 346: build_article()
BuildArticle(r) ==
    /\ run[r].pc = "compose_article"
    /\ \E news \in (IF cfg.finnhub THEN NewsAnswers ELSE {NoCall}),
          chat \in (IF cfg.client THEN ChatAnswers ELSE {NoChat}) :
          LET ctx == build_context_text(market, cfg.finnhub, news)
              text == long_article_by_openai(cfg.client, chat)
              today == DayOf(clock)
              calls == PriceCalls
                       \o (IF cfg.finnhub THEN Repeat("news", Len(news_tickers)) ELSE <<>>)
                       \o (IF cfg.client THEN <<"chat">> ELSE <<>>)
          IN  run' = [run EXCEPT ![r] =
                  Goto([@ EXCEPT !.ctx = ctx, !.today = today, !.text = text,
                                 !.article = build_article(text, ctx, today),
                                 !.trace = @ \o calls], "resolve_tags")]
    /\ UNCHANGED <<cfg, clock, market, posts>>

\* the outcomes of one wp_tag_id_by_name call
TagOutcomes == {"search_raise", "found", "create_ok", "create_fail", "create_raise"}

\* wp_tag_id_by_name: the id, or None
wp_tag_id_by_name(i, o) == IF o \in {"found", "create_ok"} THEN i ELSE None

TagCalls(o) ==
    IF o \in {"search_raise", "found"} THEN <<"GET tags">> ELSE <<"GET tags", "POST tags">>

\* main, lines 349-353: <<tag_ids, calls>> after the names 1..n
TagLoop(n, os) ==
    LET tids == [k \in 1..n |-> wp_tag_id_by_name(k, os[k])]
        ncalls == [k \in 1..n |-> Len(TagCalls(os[k]))]
        before(k) == IF k = 1 THEN 0 ELSE IF k = 2 THEN ncalls[1]
                     ELSE ncalls[1] + ncalls[2]
        total == before(n + 1)
    IN  <<SelectSeq(tids, LAMBDA x : x # None),
          [j \in 1..total |->
              LET k == CHOOSE q \in 1..n : before(q) < j /\ j <= before(q) + ncalls[q]
              IN  TagCalls(os[k])[j - before(k)]]>>

ResolveTags(r) ==
    /\ run[r].pc = "resolve_tags"
    /\ \E os \in [1..cfg.ntags -> TagOutcomes] :
          LET res == TagLoop(cfg.ntags, os)
          IN  run' = [run EXCEPT ![r] =
                  Goto([@ EXCEPT !.tag_ids = res[1], !.trace = @ \o res[2]],
                       "produce_image")]
    /\ UNCHANGED <<cfg, clock, market, posts>>

\* the outcomes of client.images.generate and of writing its payload
ImageAnswers == {"raise", "nodata", "b64"}

\* the outcomes of the Matplotlib render (subplots .. savefig)
RenderOutcomes == {"ok", "raise"}

\* what follows a render that raises: nothing catches it in
\* generate_feature_image nor in main
AfterRenderRaise == "crashed"

\* main, line 357: generate_feature_image()
GenerateFeatureImage(r) ==
    /\ run[r].pc = "produce_image"
    /\ \E ia \in (IF cfg.client THEN ImageAnswers ELSE {"nocall"}), ro \in RenderOutcomes :
          LET aicall == IF cfg.client THEN <<"image">> ELSE <<>>
          IN  run' = [run EXCEPT ![r] =
                  IF cfg.client /\ ia = "b64"
                  THEN Goto([@ EXCEPT !.img = [kind |-> "ai", dash |-> <<>>, m7 |-> <<>>],
                                      !.trace = @ \o aicall], "upload_image")
                  ELSE LET rec == [@ EXCEPT !.trace = @ \o aicall
                                              \o PriceCalls]
                       IN  IF ro = "raise"
                           THEN Goto([rec EXCEPT !.renderRaised = TRUE], AfterRenderRaise)
                           ELSE Goto([rec EXCEPT !.img =
                                        [kind |-> "dash",
                                         dash |-> market_dashboard(market),
                                         m7 |-> m7_prices(market)]], "upload_image")]
    /\ UNCHANGED <<cfg, clock, market, posts>>

\* the outcomes of upload_media
UploadOutcomes == {"open_raise", "raise", "fail", "ok"}

\* upload_media: the media id, or None
upload_media(o) == IF o = "ok" THEN 1 ELSE None

\* main, lines 358-359: `if img_path: fm_id = upload_media(img_path)`
UploadMedia(r) ==
    /\ run[r].pc = "upload_image"
    /\ \E o \in UploadOutcomes :
          run' = [run EXCEPT ![r] =
              IF run[r].img.kind = "none"
              THEN Goto(@, "create_post")
              ELSE Goto([@ EXCEPT !.fm_id = upload_media(o),
                                  !.trace = @ \o (IF o = "open_raise" THEN <<>>
                                                  ELSE <<"POST media">>)],
                        "create_post")]
    /\ UNCHANGED <<cfg, clock, market, posts>>

\* the outcomes of the POST in post_to_wp
PostOutcomes == {"raise", "fail", "ok"}

\* main trying the post again when post_to_wp returned no url
AfterPost_retry(ok) == IF ok THEN "end" ELSE "create_post"

\* main after post_to_wp returns: the closing log lines, whatever the url
AfterPost(ok) == "end"

\* main, lines 362-365: post_to_wp(...) and the closing log lines
PostToWp(r) ==
    /\ run[r].pc = "create_post"
    /\ \E o \in PostOutcomes :
          /\ run' = [run EXCEPT ![r] =
                 Goto([@ EXCEPT !.posted = TRUE, !.url = (o = "ok"),
                                !.trace = Append(@, "POST posts")],
                      AfterPost(o = "ok"))]
          /\ posts' = IF o = "ok"
                      THEN [posts EXCEPT ![run[r].slug] = @ + 1]
                      ELSE posts
    /\ UNCHANGED <<cfg, clock, market>>

\* a minute passes, before a run reads the clock (main's now, the fallback's today)
Tick(r) ==
    /\ run[r].pc \in {"start", "compose_article"}
    /\ clock < MinutesPerDay - 1 + MaxTicks
    /\ clock' = clock + 1
    /\ UNCHANGED <<cfg, market, posts, run>>

\* the market-data provider's answers change between a run's two reads of it
MarketMove(r) ==
    /\ run[r].pc \in {"resolve_tags", "produce_image"}
    /\ \E mk \in MarketStates \ {market} : market' = mk
    /\ UNCHANGED <<cfg, clock, posts, run>>

Step(r) ==
    \/ Start(r)
    \/ CheckDuplicate(r)
    \/ BuildArticle(r)
    \/ ResolveTags(r)
    \/ GenerateFeatureImage(r)
    \/ UploadMedia(r)
    \/ PostToWp(r)

(* ---------------- one run against a CMS with earlier posts -------------- *)
Init ==
    /\ cfg \in Configs
    /\ clock = MinutesPerDay - 1
    /\ market \in {mk \in MarketStates : mk.epoch = 0 /\ mk.down \subseteq {"VIX"}}
    /\ \E n \in 0..1 : posts = [m \in Minutes |-> n]
    /\ run = [r \in Runs |-> IdleRun]

Next ==
    \/ Start(1)
    \/ CheckDuplicate(1)
    \/ BuildArticle(1)
    \/ ResolveTags(1)
    \/ GenerateFeatureImage(1)
    \/ UploadMedia(1)
    \/ PostToWp(1)
    \/ Tick(1)
    \/ MarketMove(1)

Spec == Init /\ [][Next]_vars

(* ------------- two runs, overlapping or one after the other ------------ *)
InitTwo ==
    /\ cfg \in {c \in Configs : c.base = <<"h", "/">> /\ c.user /\ c.pass
                                /\ c.client /\ ~c.finnhub /\ c.ntags = 0}
    /\ clock = MinutesPerDay - 1
    /\ market = [epoch |-> 0, down |-> {}]
    /\ posts = [m \in Minutes |-> 0]
    /\ run = [r \in Runs |-> IdleRun]

NextTwo ==
    \/ \E r \in Runs : Step(r)
    \/ \E r \in Runs : Tick(r)

SpecTwo == InitTwo /\ [][NextTwo]_vars

(* ------- two runs up to the composed article (build_article's inputs) --- *)
InitCompose ==
    /\ cfg \in {c \in Configs : c.base = <<"h", "/">> /\ c.user /\ c.pass /\ c.ntags = 0}
    /\ clock = MinutesPerDay - 1
    /\ market \in {mk \in MarketStates : mk.epoch = 0 /\ mk.down \subseteq {"VIX"}}
    /\ posts = [m \in Minutes |-> 0]
    /\ run = [r \in Runs |-> IdleRun]

NextCompose ==
    \/ \E r \in Runs : Start(r)
    \/ \E r \in Runs : CheckDuplicate(r)
    \/ \E r \in Runs : BuildArticle(r)
    \/ \E r \in Runs : Tick(r)

SpecCompose == InitCompose /\ [][NextCompose]_vars

(* ------------------------------ the claims ----------------------------- *)
HasCall(r, c) == \E i \in 1..Len(run[r].trace) : run[r].trace[i] = c
NoWrites(r) == Writes(run[r].trace) = {}
Composed(r) == run[r].article.src # "none"

\* C1, as stated: a run whose slug is stored at the CMS when it makes its
\* duplicate check makes no CMS write call (POST tags, POST media, POST posts).
C1_Stated ==
    \A r \in Runs :
        run[r].checked /\ run[r].storeAtCheck > 0 => NoWrites(r)

\* C1, amended: a run whose duplicate check is answered with status 200 and a
\* non-empty list ends there, aborted as a duplicate, and makes no CMS write
\* call (POST tags, POST media, POST posts).
C1_NoWriteAfterFoundDuplicate ==
    \A r \in Runs :
        run[r].checked /\ run[r].dupOk /\ run[r].storeAtCheck > 0
            => /\ NoWrites(r)
               /\ run[r].pc = "end"
               /\ run[r].abort = "duplicate"
               /\ run[r].trace = <<"GET posts">>

\* C1: a run was answered 200 with a non-empty list and ended, with every
\* optional service configured.
C1_Witness ==
    \E r \in Runs :
        /\ run[r].checked /\ run[r].dupOk /\ run[r].storeAtCheck > 0
        /\ run[r].pc = "end"
        /\ cfg.client /\ cfg.finnhub /\ cfg.ntags > 0

\* C2, as stated: of two runs with the same slug, the second started after the
\* first was over, the second aborts at the duplicate check without calling
\* post creation, and exactly one post is stored under the slug.
C2_Stated ==
    \A r1 \in Runs : \A r2 \in Runs \ {r1} :
        /\ Over(r1) /\ Over(r2) /\ run[r2].after
        /\ run[r1].slug # None /\ run[r1].slug = run[r2].slug
        => /\ run[r2].abort = "duplicate"
           /\ ~HasCall(r2, "POST posts")
           /\ posts[run[r1].slug] = 1

\* C2, amended: of two runs with the same slug, the second started after the
\* first was over, when the first run's post creation succeeded and the second
\* run's duplicate check is answered with status 200 and a non-empty list,
\* the second aborts at the duplicate check without any CMS write, and
\* exactly one post is stored under the slug.
C2_SecondRunAborts ==
    \A r1 \in Runs : \A r2 \in Runs \ {r1} :
        /\ Over(r1) /\ Over(r2) /\ run[r2].after
        /\ run[r1].slug # None /\ run[r1].slug = run[r2].slug
        /\ run[r1].url /\ run[r2].dupOk /\ run[r2].storeAtCheck > 0
        => /\ run[r2].abort = "duplicate"
           /\ ~HasCall(r2, "POST posts")
           /\ NoWrites(r2)
           /\ posts[run[r1].slug] = 1

\* C2: the first run published, the second, started after it, made its check
\* and is over.
C2_Witness ==
    \E r1 \in Runs : \E r2 \in Runs \ {r1} :
        /\ Over(r1) /\ Over(r2) /\ run[r2].after
        /\ run[r1].slug # None /\ run[r1].slug = run[r2].slug
        /\ run[r1].url /\ run[r2].dupOk /\ run[r2].storeAtCheck > 0
        /\ posts[run[r1].slug] = 1

\* C3: a run that ended for another reason than missing configuration or a
\* duplicate slug has attempted post creation, whichever of its other steps
\* failed.
C3_OnlyTwoEarlyEnds ==
    \A r \in Runs :
        Over(r) /\ run[r].abort = "none" => run[r].posted /\ HasCall(r, "POST posts")

\* C4: when the CMS base URL, the username or the application password is
\* absent, the run returns without a single external request.
C4_NoCallWithoutConfig ==
    \A r \in Runs :
        (cfg.base = <<>> \/ ~cfg.user \/ ~cfg.pass)
            => /\ run[r].trace = <<>>
               /\ run[r].pc \in {"start", "end"}
               /\ (run[r].pc = "end" => run[r].abort = "config")

\* C4: a run ended for the missing application password, with the generative
\* and the news service configured.
C4_Witness ==
    \E r \in Runs :
        /\ run[r].pc = "end" /\ run[r].abort = "config"
        /\ cfg.base # <<>> /\ cfg.user /\ ~cfg.pass
        /\ cfg.client /\ cfg.finnhub

\* C5: a dashboard render that raises does not escape generate_feature_image:
\* the function returns None, no media is uploaded and the post is still
\* created, without a featured image.
C5_RenderFailureContained ==
    \A r \in Runs :
        run[r].renderRaised
            => /\ run[r].pc # "crashed"
               /\ run[r].img.kind = "none"
               /\ ~HasCall(r, "POST media")
               /\ (Over(r) => run[r].posted /\ run[r].fm_id = None)

\* the value the context block shows for a ticker
CtxValue(ctx, t) ==
    LET i == CHOOSE j \in 1..Len(ctx) : ctx[j].txt[1] = "kv" /\ ctx[j].txt[2] = t
    IN  ctx[i].txt[3]

\* C7: the fallback dashboard image shows, for every macro indicator and every
\* equity-basket ticker, the value the run's context block shows.
C7_ImageFromSameSnapshot ==
    \A r \in Runs :
        run[r].img.kind = "dash"
            => /\ \A i \in 1..Len(dash_tickers) :
                      run[r].img.dash[i] = CtxValue(run[r].ctx, dash_tickers[i])
               /\ \A i \in 1..Len(m7_names) :
                      run[r].img.m7[i] = CtxValue(run[r].ctx, m7_names[i])

StepOrder ==
    <<"start", "check_duplicate", "compose_article", "resolve_tags",
      "produce_image", "upload_image", "create_post", "end", "crashed">>

StepRank(st) == CHOOSE i \in 1..Len(StepOrder) : StepOrder[i] = st

\* where in the pipeline an external request belongs
CallRankAt(c, rk) ==
    CASE c = "GET posts" -> 2
      [] c \in {"news", "chat"} -> 3
      [] c = "prices" /\ rk <= 3 -> 3
      [] c = "prices" -> 5
      [] c \in {"GET tags", "POST tags"} -> 4
      [] c = "image" -> 5
      [] c = "POST media" -> 6
      [] c = "POST posts" -> 7
      [] OTHER -> 0

RECURSIVE RanksOk(_, _, _)
\* the requests from the i-th on never step back in the pipeline
RanksOk(tr, i, rk) ==
    IF i > Len(tr) THEN TRUE
    ELSE /\ CallRankAt(tr[i], rk) >= rk
         /\ RanksOk(tr, i + 1, CallRankAt(tr[i], rk))

\* C8: the steps of a run follow the fixed order, none is entered twice, the
\* duplicate check comes before every CMS write, post creation is requested
\* at most once and is the run's last CMS call.
C8_FixedOrder ==
    \A r \in Runs :
        LET st == run[r].steps
            tr == run[r].trace
        IN  /\ \A i \in 1..Len(st) : \A j \in 1..Len(st) :
                   i < j => StepRank(st[i]) < StepRank(st[j])
            /\ st[Len(st)] = run[r].pc
            /\ Count(tr, "GET posts") <= 1
            /\ Count(tr, "POST posts") <= 1
            /\ Count(tr, "POST media") <= 1
            /\ \A i \in Writes(tr) : \E j \in 1..(i - 1) : tr[j] = "GET posts"
            /\ \A i \in 1..Len(tr) : tr[i] = "POST posts" => i = Len(tr)
            /\ RanksOk(tr, 1, 0)
            /\ (run[r].posted => Over(r))

\* C8: a run went through every step, created a tag, uploaded media, and its
\* one post creation failed.
C8_Witness ==
    \E r \in Runs :
        /\ run[r].steps = SubSeq(StepOrder, 1, 8)
        /\ run[r].posted /\ ~run[r].url
        /\ HasCall(r, "POST tags") /\ HasCall(r, "POST media")

\* C9: two runs with the same slug that both made the duplicate check while no
\* post was stored under it both pass the check, and both go on to request
\* post creation: nothing makes one of them wait or abort.
C9_CheckDoesNotSerialize ==
    \A r \in Runs : \A q \in Runs \ {r} :
        /\ run[r].checked /\ run[q].checked
        /\ run[r].slug = run[q].slug
        /\ run[r].storeAtCheck = 0 /\ run[q].storeAtCheck = 0
        => /\ run[r].abort = "none"
           /\ run[r].pc # "check_duplicate"
           /\ (run[r].pc = "end" => HasCall(r, "POST posts"))
           /\ (run[r].url /\ run[q].url => posts[run[r].slug] = 2)

\* C9: two overlapping runs with one slug both passed an answered check and
\* both created a post.
C9_Witness ==
    \E r \in Runs : \E q \in Runs \ {r} :
        /\ run[r].slug = run[q].slug
        /\ run[r].dupOk /\ run[q].dupOk
        /\ run[r].storeAtCheck = 0 /\ run[q].storeAtCheck = 0
        /\ ~run[r].after /\ ~run[q].after
        /\ HasCall(r, "POST posts") /\ HasCall(q, "POST posts")
        /\ run[r].url /\ run[q].url
        /\ posts[run[r].slug] = 2

\* C10: a duplicate check whose request raises, is answered with another
\* status than 200 or with a body that is no list reports no post: the run is
\* not aborted and goes on to post creation, whether or not a post is stored.
C10_CheckFailsOpen ==
    \A r \in Runs :
        run[r].checked /\ ~run[r].dupOk
            => /\ run[r].abort = "none"
               /\ run[r].pc # "check_duplicate"
               /\ (run[r].pc = "end" => run[r].posted /\ HasCall(r, "POST posts"))

\* C10: a run whose check failed while a post was stored went on to create a
\* tag, upload media and publish.
C10_Witness ==
    \E r \in Runs :
        /\ run[r].checked /\ ~run[r].dupOk /\ run[r].storeAtCheck > 0
        /\ HasCall(r, "POST tags") /\ HasCall(r, "POST media")
        /\ run[r].url

(* ------------------------- the composed article ------------------------ *)
Heads(ls) == SelectSeq(ls, LAMBDA l : l.txt[1] = "head")

\* the fallback text is the seven numbered sections, the first dated `day`,
\* with the context block, line for line, right below the second heading
IsTemplate(ls, ctx, day) ==
    /\ Len(ls) = Len(ctx) + 21
    /\ LET hs == Heads(ls)
       IN  /\ Len(hs) = 7
           /\ hs[1].txt = <<"head", "1", day>>
           /\ ls[1] = hs[1]
           /\ \A k \in 2..7 : hs[k].txt[3] = 0
           /\ [k \in 1..7 |-> hs[k].txt[2]] = <<"1", "2", "3", "4", "5", "6", "7">>
    /\ ls[4].txt = <<"head", "2", 0>>
    /\ \A k \in 1..Len(ctx) : ls[4 + k].txt = ctx[k].txt
    /\ \A k \in 2..Len(ctx) : ls[4 + k].ind = ctx[k].ind
    /\ ls[5 + Len(ctx)].txt[1] = "blank"
    /\ ls[6 + Len(ctx)].txt = <<"head", "3", 0>>

ArticleEmpty(a) == a.text = <<>> /\ a.lines = <<>>

C6_PerRun(r) ==
    LET a == run[r].article
        t == run[r].text
    IN  /\ ~ArticleEmpty(a)
        /\ a.src = "openai" <=> (cfg.client /\ t.some /\ t.text # <<>>)
        /\ a.src = "openai" => a.text = t.text /\ a.lines = <<>>
        /\ a.src = "fallback" => a.text = <<>>

\* C6, as stated: build_article returns non-empty text, the generated text
\* when the call gave some, and otherwise the fixed template filled with the
\* context block alone, so that two fallback results for the same context
\* block are the same text.
C6_Stated ==
    /\ \A r \in Runs : Composed(r) => C6_PerRun(r)
    /\ \A r \in Runs : \A q \in Runs :
           /\ run[r].article.src = "fallback" /\ run[q].article.src = "fallback"
           /\ run[r].ctx = run[q].ctx
           => run[r].article = run[q].article

\* C6, amended: build_article returns non-empty text, the generated text when
\* the call gave some, and otherwise the fixed 7-section template with the
\* context block in section 2 and the current date in the heading of section
\* 1, so that two fallback results for the same context block on the same
\* date are the same text.
C6_ArticleNeverEmpty ==
    /\ \A r \in Runs : Composed(r) => C6_PerRun(r)
    /\ \A r \in Runs :
           run[r].article.src = "fallback"
               => IsTemplate(run[r].article.lines, run[r].ctx, run[r].today)
    /\ \A r \in Runs : \A q \in Runs :
           /\ run[r].article.src = "fallback" /\ run[q].article.src = "fallback"
           /\ run[r].ctx = run[q].ctx /\ run[r].today = run[q].today
           => run[r].article = run[q].article

\* C6: two runs composed the fallback text from equal context blocks on one
\* date, one of them after a generated answer of spaces only.
C6_Witness ==
    \E r \in Runs : \E q \in Runs \ {r} :
        /\ run[r].article.src = "fallback" /\ run[q].article.src = "fallback"
        /\ run[r].ctx = run[q].ctx /\ run[r].today = run[q].today
        /\ run[r].text.some /\ ~run[q].text.some
        /\ cfg.finnhub /\ Len(run[r].ctx) > 15

====
